---------------------------- MODULE Spec2Model ----------------------------
(***************************************************************************)
(* Model of train.py: the training / validation / test loop of the 3DCD    *)
(* change-detection script.                                                *)
(*                                                                         *)
(* Numbers.  A real number is a pair <<n, d>> with d >= 0, in lowest       *)
(* terms.  d = 0 encodes the IEEE values numpy produces on a division by   *)
(* zero: <<1, 0>> is inf, <<-1, 0>> is -inf and <<0, 0>> is nan.  The       *)
(* result of np.sqrt is kept exact as a record [root |-> TRUE, q |-> r]    *)
(* standing for the non-negative square root of r; a plain number is       *)
(* [root |-> FALSE, q |-> r].                                              *)
(***************************************************************************)
EXTENDS Integers, Sequences, FiniteSets, TLC

(***************************************************************************)
(* Bounds of the model.                                                    *)
(***************************************************************************)
\* largest configured optim.num_epochs
MaxEpochs == 3
\* largest training dataset (number of samples)
MaxTrain == 3

(***************************************************************************)
(* Rational arithmetic with numpy's inf / nan.                             *)
(***************************************************************************)
Abs(i) == IF i < 0 THEN -i ELSE i

Sign(i) == IF i < 0 THEN -1 ELSE IF i > 0 THEN 1 ELSE 0

RECURSIVE GCD(_, _)
GCD(a, b) == IF b = 0 THEN a ELSE GCD(b, a % b)

Norm(r) ==
    IF r[2] = 0 THEN <<Sign(r[1]), 0>>
    ELSE LET s == IF r[2] < 0 THEN -1 ELSE 1
             g == GCD(Abs(r[1]), Abs(r[2]))
         IN  <<(s * r[1]) \div g, (s * r[2]) \div g>>

R(i) == <<i, 1>>

NaN == <<0, 0>>

IsNaN(r) == r[2] = 0 /\ r[1] = 0

IsFinite(r) == r[2] # 0

RAdd(a, b) ==
    IF IsNaN(a) \/ IsNaN(b) THEN NaN
    ELSE IF ~IsFinite(a) /\ ~IsFinite(b)
         THEN (IF a[1] = b[1] THEN a ELSE NaN)
    ELSE IF ~IsFinite(a) THEN a
    ELSE IF ~IsFinite(b) THEN b
    ELSE Norm(<<a[1] * b[2] + b[1] * a[2], a[2] * b[2]>>)

RNeg(a) == <<-a[1], a[2]>>

RSub(a, b) == RAdd(a, RNeg(b))

RMul(a, b) ==
    IF IsNaN(a) \/ IsNaN(b) THEN NaN
    ELSE IF ~IsFinite(a) \/ ~IsFinite(b)
         THEN <<Sign(a[1]) * Sign(b[1]), 0>>
    ELSE Norm(<<a[1] * b[1], a[2] * b[2]>>)

\* numpy / torch true division: x/0 is inf, -inf or nan, never an exception
RDiv(a, b) ==
    IF IsNaN(a) \/ IsNaN(b) THEN NaN
    ELSE IF ~IsFinite(b) THEN (IF IsFinite(a) THEN R(0) ELSE NaN)
    ELSE IF ~IsFinite(a) THEN <<a[1] * (IF b[1] < 0 THEN -1 ELSE 1), 0>>
    ELSE Norm(<<a[1] * b[2], a[2] * b[1]>>)

RAbs(a) == <<Abs(a[1]), a[2]>>

\* a < b with IEEE comparison: every comparison with nan is false
RLt(a, b) ==
    IF IsNaN(a) \/ IsNaN(b) THEN FALSE
    ELSE IF ~IsFinite(a) THEN a[1] < 0 /\ ~(~IsFinite(b) /\ b[1] < 0)
    ELSE IF ~IsFinite(b) THEN b[1] > 0
    ELSE a[1] * b[2] < b[1] * a[2]

RECURSIVE RSum(_)
RSum(s) == IF s = <<>> THEN R(0) ELSE RAdd(Head(s), RSum(Tail(s)))

Num(r) == [root |-> FALSE, q |-> r]

\* np.sqrt of a non-negative number (sqrt(inf) = inf, sqrt(nan) = nan)
Sqrt(r) == [root |-> TRUE, q |-> r]

\* sqrt(r) < m for r >= 0 and an integer m > 0: floor(r) < m*m, computed
\* as floor(r) \div m < m so that m*m is never formed
RootLtInt(r, m) ==
    /\ ~IsNaN(r)
    /\ IsFinite(r)
    /\ (r[1] \div r[2]) \div m < m

\* m < sqrt(r): neither sqrt(r) < m nor r = m*m
IntLtRoot(m, r) ==
    /\ ~IsNaN(r)
    /\ \/ ~IsFinite(r)
       \/ /\ ~RootLtInt(r, m)
          /\ ~(r[2] = 1 /\ r[1] \div m = m /\ r[1] % m = 0)

\* a < b where each side is a root or a positive integer literal
RealLt(a, b) ==
    IF a.root = b.root THEN RLt(a.q, b.q)
    ELSE IF a.root THEN RootLtInt(a.q, b.q[1])
    ELSE IntLtRoot(a.q[1], b.q)


(***************************************************************************)
(* Inputs of the model: the experiment configurations, the samples of the  *)
(* datasets and the outputs the external collaborators (network, loss      *)
(* functions) may produce.  A sample is an image pair reduced to its two   *)
(* ground-truth masks over two pixels.                                     *)
(***************************************************************************)
ModelNames ==
    {"SUNet18", "ResNet18", "ChangeFormer", "SiamUnet_conc", "Unet",
     "mtbit_resnet18", "mtbit_resnet50"}

ConfiguredModels == {"SUNet18", "FCSiamDiff"}

BatchSizes == {2, 3}

\* <<min_value, max_value>> of the configuration, min < max
Scales == {<<0, 2>>, <<-1, 2>>, <<-2, 3>>}

RestoreTags == {"2d"}

Sample(m2, m3) == [mask2d |-> m2, mask3d |-> m3]

\* ground-truth 3D values are integers of [0, 2], inside every scale of Scales
TrainPool ==
    <<Sample(<<0, 1>>, <<0, 2>>),
      Sample(<<0, 0>>, <<0, 0>>),
      Sample(<<1, 1>>, <<1, 2>>),
      Sample(<<0, 1>>, <<0, 1>>)>>

ValidDatasets ==
    {<<Sample(<<0, 0>>, <<0, 0>>)>>,
     <<Sample(<<0, 1>>, <<0, 2>>)>>,
     <<Sample(<<0, 1>>, <<0, 2>>), Sample(<<0, 0>>, <<0, 0>>)>>}

TestDatasets ==
    {<<Sample(<<0, 0>>, <<0, 0>>)>>,
     <<Sample(<<1, 1>>, <<1, 2>>), Sample(<<0, 0>>, <<0, 0>>)>>}

\* what the network may answer for a sample: the arg-max class map, and the
\* 3D prediction in physical units whose normalised image is its raw output
NetOutputs ==
    {<<<<0, 0>>, <<0, 0>>>>,
     <<<<0, 1>>, <<0, 2>>>>,
     <<<<0, 1>>, <<1, 1>>>>,
     <<<<1, 1>>, <<1, 2>>>>}

\* <<loss2d, loss3d>> values the criteria may return for a batch
Losses == {<<1, 1>>, <<2, 3>>}

(***************************************************************************)
(* State.                                                                  *)
(***************************************************************************)
VARIABLES
    exp_config,      \* the loaded configuration
    args,            \* command-line arguments
    train_dataset, valid_dataset, test_dataset,
    files,           \* checkpoint artifacts of the output directory
    stats,           \* the record built last (lines 292 and 360)
    stats_file,      \* the "epoch" key of each record this run appended
    pc, error,       \* position of the script, and the exception that ended it
    net,             \* the model object: [bound, arch, training, params]
    optimizer,       \* number of optimizer.step() calls
    lr_adjust,       \* number of scheduler step() calls
    best2dmetric, best3dmetric,
    epoch,
    loader,          \* indices the running loader has not yielded yet
    batch,           \* the batch the loop body is handling (sample indices)
    mask3d,          \* normalised 3D target of the training batch
    loss2d, loss3d,
    tot_2d_loss, tot_3d_loss,
    epoch_2d_loss, epoch_3d_loss, epoch_loss,
    counts,          \* [TN, FP, FN, TP, np]: np = the counts are numpy integers
    mean_mae, rmse1, rmse2,
    net_out3d,       \* raw 3D output of the network for the batch
    out2d, out3d,    \* arg-max prediction, denormalised 3D prediction
    cm,              \* tn, fp, fn, tp of the batch
    s_rmse1, s_rmse2,
    F1, IoU, RMSE1, RMSE2

vars ==
    <<exp_config, args, train_dataset, valid_dataset, test_dataset, files,
      stats, stats_file, pc, error, net, optimizer, lr_adjust, best2dmetric,
      best3dmetric, epoch, loader, batch, mask3d, loss2d, loss3d, tot_2d_loss,
      tot_3d_loss, epoch_2d_loss, epoch_3d_loss, epoch_loss, counts, mean_mae,
      rmse1, rmse2, net_out3d, out2d, out3d, cm, s_rmse1, s_rmse2, F1, IoU,
      RMSE1, RMSE2>>

nepochs == exp_config.num_epochs

batch_size == exp_config.batch_size

min_scale == exp_config.min_value

max_scale == exp_config.max_value

lweight2d == exp_config.loss_weights[1]

lweight3d == exp_config.loss_weights[2]

model == exp_config.model

res_cp == exp_config.restore_checkpoints

(***************************************************************************)
(* Pure computations of the script.                                        *)
(***************************************************************************)
\* line 209: 2*(mask3d - min_scale)/(max_scale - min_scale)-1
Normalize(x) ==
    RSub(RDiv(RMul(R(2), RSub(x, R(min_scale))), R(max_scale - min_scale)),
         R(1))

\* mutant of DenormalizeVal: the offset min_scale is not added back
DenormalizeValNoOffset(y) ==
    RMul(RDiv(RAdd(y, R(1)), R(2)), R(max_scale - min_scale))

\* line 252: ((out3d.ravel()+1)/2)*(max_scale-min_scale)+min_scale
DenormalizeVal(y) ==
    RAdd(RMul(RDiv(RAdd(y, R(1)), R(2)), R(max_scale - min_scale)),
         R(min_scale))

\* line 324: (out3d + 1)*(max_scale - min_scale)/2 + min_scale
DenormalizeTest(y) ==
    RAdd(RDiv(RMul(RAdd(y, R(1)), R(max_scale - min_scale)), R(2)),
         R(min_scale))

SquaredError(inputs, targets) ==
    [i \in 1..Len(inputs) |->
        RMul(RSub(inputs[i], targets[i]), RSub(inputs[i], targets[i]))]

CountNonzero(targets) == Cardinality({i \in 1..Len(targets) : targets[i] # R(0)})

\* lines 45-51; inputs and targets are sequences of numbers
metric_mse(inputs, targets, exclude_zeros) ==
    LET loss == SquaredError(inputs, targets)
    IN  IF exclude_zeros
        THEN RDiv(RSum(loss), R(CountNonzero(targets)))
        ELSE RDiv(RSum(loss), R(Len(loss)))

\* sklearn.metrics.mean_absolute_error
mean_absolute_error(y_true, y_pred) ==
    RDiv(RSum([i \in 1..Len(y_true) |-> RAbs(RSub(y_true[i], y_pred[i]))]),
         R(Len(y_true)))

CountPairs(y_true, y_pred, t, p) ==
    Cardinality({i \in 1..Len(y_true) : y_true[i] = t /\ y_pred[i] = p})

\* sklearn.metrics.confusion_matrix(...).ravel(): the labels are the values
\* present in either argument, so one class alone gives a 1x1 matrix
confusion_matrix(y_true, y_pred) ==
    LET labels == {y_true[i] : i \in 1..Len(y_true)} \cup
                  {y_pred[i] : i \in 1..Len(y_pred)}
    IN  IF Cardinality(labels) = 1
        THEN <<Len(y_true)>>
        ELSE <<CountPairs(y_true, y_pred, 0, 0), CountPairs(y_true, y_pred, 0, 1),
               CountPairs(y_true, y_pred, 1, 0), CountPairs(y_true, y_pred, 1, 1)>>

\* lines 254-258 and 326-330: unpacking anything but four values raises, and
\* the bare except substitutes zeros
TryConfusionMatrix(y_true, y_pred) ==
    LET r == confusion_matrix(y_true, y_pred)
    IN  IF Len(r) = 4
        THEN [tn |-> r[1], fp |-> r[2], fn |-> r[3], tp |-> r[4], np |-> TRUE]
        ELSE [tn |-> 0, fp |-> 0, fn |-> 0, tp |-> 0, np |-> FALSE]

(***************************************************************************)
(* Values of names that are not bound, and of loop locals outside their    *)
(* loop.  The script never reads a loop local after its loop without       *)
(* rebinding it first, so the model drops the locals when the loop ends.   *)
(***************************************************************************)
NoFile == [exists |-> FALSE, params |-> [base |-> "none", steps |-> 0]]

Unbound == [bound |-> FALSE, arch |-> "none", training |-> FALSE,
            params |-> [base |-> "none", steps |-> 0]]

\* the "epoch" key of a record: an epoch index, or the string 'Test'
EpochKey(e) == [tag |-> "epoch", index |-> e]

TestKey == [tag |-> "Test", index |-> 0]

NoStats == [epoch |-> [tag |-> "none", index |-> 0]]

ZeroCounts == [TN |-> 0, FP |-> 0, FN |-> 0, TP |-> 0, np |-> FALSE]

NoCm == [tn |-> 0, fp |-> 0, fn |-> 0, tp |-> 0, np |-> FALSE]

\* line 192
Sentinel3d == 1000000

\* lines 292 and 360: F1*100, IoU*100
Percent == 100

Indices(dataset) == 1..Len(dataset)

Min(S) == CHOOSE i \in S : \A j \in S : i <= j

\* the elements of S in increasing order
RECURSIVE Ascending(_)
Ascending(S) == IF S = {} THEN <<>> ELSE <<Min(S)>> \o Ascending(S \ {Min(S)})

TrainLocals == <<batch, mask3d, loss2d, loss3d>>

EvalLocals == <<net_out3d, out2d, out3d, cm, s_rmse1, s_rmse2>>

TrainTotals == <<tot_2d_loss, tot_3d_loss>>

EpochLosses == <<epoch_2d_loss, epoch_3d_loss, epoch_loss>>

EvalTotals == <<counts, mean_mae, rmse1, rmse2>>

EvalMetrics == <<F1, IoU, RMSE1, RMSE2>>

Best == <<best2dmetric, best3dmetric>>

Inputs == <<exp_config, args, train_dataset, valid_dataset, test_dataset>>

(***************************************************************************)
(* Initial state: the configuration is loaded, the datasets and loaders    *)
(* are built (lines 53-154), nothing of the model exists yet.              *)
(***************************************************************************)
Init ==
    /\ exp_config \in
         [model : ConfiguredModels, num_epochs : 1..MaxEpochs,
          batch_size : BatchSizes, min_value : {sc[1] : sc \in Scales},
          max_value : {sc[2] : sc \in Scales}, loss_weights : {<<1, 2>>},
          restore_checkpoints : RestoreTags]
    /\ <<exp_config.min_value, exp_config.max_value>> \in Scales
    /\ args \in [verbose : BOOLEAN]
    /\ train_dataset \in {SubSeq(TrainPool, 1, n) : n \in 1..MaxTrain}
    /\ valid_dataset \in ValidDatasets
    /\ test_dataset \in TestDatasets
    /\ files \in {[t \in {"2d", "3d"} |-> NoFile]}
    /\ stats = NoStats
    /\ stats_file = <<>>
    /\ pc = "dispatch"
    /\ error = "none"
    /\ net = Unbound
    /\ optimizer = 0
    /\ lr_adjust = 0
    /\ best2dmetric = R(0)
    /\ best3dmetric = Num(R(Sentinel3d))
    /\ epoch = 0
    /\ loader = {}
    /\ batch = <<>>
    /\ mask3d = <<>>
    /\ loss2d = 0
    /\ loss3d = 0
    /\ tot_2d_loss = 0
    /\ tot_3d_loss = 0
    /\ epoch_2d_loss = R(0)
    /\ epoch_3d_loss = R(0)
    /\ epoch_loss = R(0)
    /\ counts = ZeroCounts
    /\ mean_mae = R(0)
    /\ rmse1 = R(0)
    /\ rmse2 = R(0)
    /\ net_out3d = <<>>
    /\ out2d = <<>>
    /\ out3d = <<>>
    /\ cm = NoCm
    /\ s_rmse1 = R(0)
    /\ s_rmse2 = R(0)
    /\ F1 = R(0)
    /\ IoU = R(0)
    /\ RMSE1 = Sqrt(R(0))
    /\ RMSE2 = Sqrt(R(0))

Raise(exception) ==
    /\ pc' = "error"
    /\ error' = exception

(***************************************************************************)
(* Lines 156-175: the model dispatch.  An unknown name only prints, and    *)
(* the name net stays unbound.  A new torch module is in training mode.    *)
(***************************************************************************)
\* mutant of NewNet: the else branch builds a network as well
NewNetAlwaysBound(name) ==
    [bound |-> TRUE, arch |-> IF name \in ModelNames THEN name ELSE "SUNet18",
     training |-> TRUE, params |-> [base |-> "init", steps |-> 0]]

NewNet(name) ==
    IF name \in ModelNames
    THEN [bound |-> TRUE, arch |-> name, training |-> TRUE,
          params |-> [base |-> "init", steps |-> 0]]
    ELSE Unbound

ModelDispatch ==
    /\ pc = "dispatch"
    /\ net' = NewNet(model)
    /\ pc' = "optim"
    /\ UNCHANGED <<Inputs, files, stats, stats_file, error, optimizer, lr_adjust, Best,
                   epoch, loader, TrainLocals, TrainTotals, EpochLosses,
                   EvalTotals, EvalLocals, EvalMetrics>>

(***************************************************************************)
(* Lines 177-180: set_optimizer(exp_config['optim'], net) evaluates the    *)
(* name net, which raises NameError when the dispatch bound nothing.       *)
(***************************************************************************)
SetOptimizer ==
    /\ pc = "optim"
    /\ IF net.bound
       THEN /\ optimizer' = 0
            /\ lr_adjust' = 0
            /\ pc' = "restore"
            /\ error' = error
       ELSE /\ Raise("NameError")
            /\ UNCHANGED <<optimizer, lr_adjust>>
    /\ UNCHANGED <<Inputs, files, stats, stats_file, net, Best, epoch, loader,
                   TrainLocals, TrainTotals, EpochLosses, EvalTotals,
                   EvalLocals, EvalMetrics>>

\* net.load_state_dict(torch.load(<res_cp>bestnet.pth)) when the file exists
LoadIfExists(n) ==
    IF files[res_cp].exists THEN [n EXCEPT !.params = files[res_cp].params] ELSE n

(***************************************************************************)
(* Lines 182-194: restore a checkpoint if there is one, initialise the     *)
(* two best-metric trackers, put the network in training mode.             *)
(***************************************************************************)
RestoreAndStart ==
    /\ pc = "restore"
    /\ net' = [LoadIfExists(net) EXCEPT !.training = TRUE]
    /\ best2dmetric' = R(0)
    /\ best3dmetric' = Num(R(Sentinel3d))
    /\ pc' = "epoch_head"
    /\ UNCHANGED <<Inputs, files, stats, stats_file, error, optimizer, lr_adjust,
                   epoch, loader, TrainLocals, TrainTotals, EpochLosses,
                   EvalTotals, EvalLocals, EvalMetrics>>

(***************************************************************************)
(* Line 196: for epoch in range(1, nepochs).                               *)
(***************************************************************************)
EpochRange == 1..(nepochs - 1)

\* lines 196-201: the loop takes its next index and resets the totals
EpochBegin ==
    /\ pc = "epoch_head"
    /\ epoch + 1 \in EpochRange
    /\ epoch' = epoch + 1
    /\ tot_2d_loss' = 0
    /\ tot_3d_loss' = 0
    /\ loader' = Indices(train_dataset)
    /\ stats' = NoStats
    /\ pc' = "train"
    /\ UNCHANGED <<Inputs, files, stats_file, error, net, optimizer, lr_adjust,
                   Best, TrainLocals, EpochLosses, EvalTotals, EvalLocals,
                   EvalMetrics>>

\* line 132: DataLoader(batch_size, shuffle=True), drop_last left False:
\* any batch_size samples not yet drawn, or all that are left
NextTrainBatches ==
    {b \in SUBSET loader :
        Cardinality(b) = IF Cardinality(loader) < batch_size
                         THEN Cardinality(loader) ELSE batch_size}

NormalizedTarget(sample) == [i \in 1..Len(sample.mask3d) |-> Normalize(R(sample.mask3d[i]))]

\* lines 222-223: tot += loss * batch_size, the configured batch size
\* whatever the number of samples the batch holds
AddBatchLoss(tot, loss, samples) == tot + loss * batch_size

(***************************************************************************)
(* Lines 203-223: one training batch.                                      *)
(***************************************************************************)
TrainBatch ==
    /\ pc = "train"
    /\ loader # {}
    /\ \E b \in NextTrainBatches, l \in Losses :
          /\ batch' = Ascending(b)
          /\ loader' = loader \ b
          /\ mask3d' = [i \in 1..Cardinality(b) |->
                           NormalizedTarget(train_dataset[Ascending(b)[i]])]
          /\ loss2d' = l[1]
          /\ loss3d' = l[2]
          /\ tot_2d_loss' = AddBatchLoss(tot_2d_loss, l[1], b)
          /\ tot_3d_loss' = AddBatchLoss(tot_3d_loss, l[2], b)
    /\ optimizer' = optimizer + 1
    /\ net' = [net EXCEPT !.params.steps = @ + 1]
    /\ UNCHANGED <<Inputs, files, stats, stats_file, pc, error, lr_adjust, Best, epoch,
                   EpochLosses, EvalTotals, EvalLocals, EvalMetrics>>

\* lines 225-226: tot / len(train_dataset)
EpochLoss(tot) == RDiv(R(tot), R(Len(train_dataset)))

\* mutant of TrainEnd: lr_adjust.step() is left out
TrainEndSkipsScheduler ==
    /\ pc = "train"
    /\ loader = {}
    /\ epoch_2d_loss' = EpochLoss(tot_2d_loss)
    /\ epoch_3d_loss' = EpochLoss(tot_3d_loss)
    /\ epoch_loss' = RAdd(RMul(R(lweight2d), EpochLoss(tot_2d_loss)),
                          RMul(R(lweight3d), EpochLoss(tot_3d_loss)))
    /\ batch' = <<>>
    /\ mask3d' = <<>>
    /\ loss2d' = 0
    /\ loss3d' = 0
    /\ pc' = "val_head"
    /\ UNCHANGED <<Inputs, files, stats, stats_file, error, net, optimizer, Best,
                   epoch, loader, TrainTotals, EvalTotals, EvalLocals,
                   EvalMetrics, lr_adjust>>

(***************************************************************************)
(* Lines 225-231: the epoch losses, then lr_adjust.step().                 *)
(***************************************************************************)
TrainEnd ==
    /\ pc = "train"
    /\ loader = {}
    /\ epoch_2d_loss' = EpochLoss(tot_2d_loss)
    /\ epoch_3d_loss' = EpochLoss(tot_3d_loss)
    /\ epoch_loss' = RAdd(RMul(R(lweight2d), EpochLoss(tot_2d_loss)),
                          RMul(R(lweight3d), EpochLoss(tot_3d_loss)))
    /\ lr_adjust' = lr_adjust + 1
    /\ batch' = <<>>
    /\ mask3d' = <<>>
    /\ loss2d' = 0
    /\ loss3d' = 0
    /\ pc' = "val_head"
    /\ UNCHANGED <<Inputs, files, stats, stats_file, error, net, optimizer, Best, epoch,
                   loader, TrainTotals, EvalTotals, EvalLocals, EvalMetrics>>

(***************************************************************************)
(* Lines 233-242: net.eval() and the phase accumulators.                   *)
(***************************************************************************)
ValBegin ==
    /\ pc = "val_head"
    /\ net' = [net EXCEPT !.training = FALSE]
    /\ counts' = ZeroCounts
    /\ mean_mae' = R(0)
    /\ rmse1' = R(0)
    /\ rmse2' = R(0)
    /\ loader' = Indices(valid_dataset)
    /\ pc' = "val"
    /\ UNCHANGED <<Inputs, files, stats, stats_file, error, optimizer, lr_adjust, Best,
                   epoch, TrainLocals, TrainTotals, EpochLosses, EvalLocals,
                   EvalMetrics>>

Rs(s) == [i \in 1..Len(s) |-> R(s[i])]

\* lines 266-269 and 343-346
AddCounts(c, m) ==
    [TN |-> c.TN + m.tn, FP |-> c.FP + m.fp, FN |-> c.FN + m.fn,
     TP |-> c.TP + m.tp, np |-> c.np \/ m.np]

(***************************************************************************)
(* Lines 246-272 and 317-349: the body of the validation and of the test   *)
(* loop on one sample (the two loaders have batch_size 1 and no shuffle);  *)
(* raw is the network's 3D output, o3 the phase's denormalisation of it,   *)
(* pred the arg-max class map.                                             *)
(***************************************************************************)
EvalBatch(sample, pred, raw, o3) ==
    LET gt == Rs(sample.mask3d)
    IN  /\ net_out3d' = raw
        /\ out2d' = pred
        /\ out3d' = o3
        /\ cm' = TryConfusionMatrix(sample.mask2d, pred)
        /\ s_rmse1' = metric_mse(o3, gt, FALSE)
        /\ s_rmse2' = metric_mse(o3, gt, TRUE)
        /\ counts' = AddCounts(counts, TryConfusionMatrix(sample.mask2d, pred))
        /\ mean_mae' = RAdd(mean_mae, mean_absolute_error(gt, o3))
        /\ rmse1' = RAdd(rmse1, metric_mse(o3, gt, FALSE))
        /\ rmse2' = RAdd(rmse2, metric_mse(o3, gt, TRUE))

Raw(o) == [i \in 1..Len(o) |-> Normalize(R(o[i]))]

ValBatch ==
    /\ pc = "val"
    /\ loader # {}
    /\ batch' = <<Min(loader)>>
    /\ loader' = loader \ {Min(loader)}
    /\ \E o \in NetOutputs :
          EvalBatch(valid_dataset[Min(loader)], o[1], Raw(o[2]),
                    [i \in 1..Len(o[2]) |-> DenormalizeVal(Raw(o[2])[i])])
    /\ UNCHANGED <<Inputs, files, stats, stats_file, pc, error, net, optimizer,
                   lr_adjust, Best, epoch, mask3d, loss2d, loss3d, TrainTotals,
                   EpochLosses, EvalMetrics>>

\* Python's int / int raises ZeroDivisionError on a zero divisor; numpy's
\* integers give nan (with a warning) instead
DivisionFaults(c) == ~c.np /\ 2 * c.TP + c.FN + c.FP = 0

\* lines 274 and 351
F1Score(c) == RDiv(R(2 * c.TP), R(2 * c.TP + c.FN + c.FP))

\* lines 275 and 352
IoUScore(c) == RDiv(R(c.TP), R(c.TP + c.FN + c.FP))

\* lines 277-278 and 354-355
RootMean(total, n) == Sqrt(RDiv(total, R(n)))

\* the epoch's losses, totals and metrics are not read again before the next
\* epoch (or the test phase) rebinds them: the model forgets them once the
\* record that holds them is written
DropEpochValues ==
    /\ tot_2d_loss' = 0
    /\ tot_3d_loss' = 0
    /\ epoch_2d_loss' = R(0)
    /\ epoch_3d_loss' = R(0)
    /\ epoch_loss' = R(0)
    /\ counts' = ZeroCounts
    /\ mean_mae' = R(0)
    /\ rmse1' = R(0)
    /\ rmse2' = R(0)
    /\ F1' = R(0)
    /\ IoU' = R(0)
    /\ RMSE1' = Sqrt(R(0))
    /\ RMSE2' = Sqrt(R(0))

DropEvalLocals ==
    /\ batch' = <<>>
    /\ net_out3d' = <<>>
    /\ out2d' = <<>>
    /\ out3d' = <<>>
    /\ cm' = NoCm
    /\ s_rmse1' = R(0)
    /\ s_rmse2' = R(0)

(***************************************************************************)
(* Lines 274-280: the metrics of the validation phase.                     *)
(***************************************************************************)
ValEnd ==
    /\ pc = "val"
    /\ loader = {}
    /\ IF DivisionFaults(counts)
       THEN /\ Raise("ZeroDivisionError")
            /\ UNCHANGED <<EvalMetrics, mean_mae>>
       ELSE /\ F1' = F1Score(counts)
            /\ IoU' = IoUScore(counts)
            /\ mean_mae' = RDiv(mean_mae, R(Len(valid_dataset)))
            /\ RMSE1' = RootMean(rmse1, Len(valid_dataset))
            /\ RMSE2' = RootMean(rmse2, Len(valid_dataset))
            /\ pc' = "checkpoint"
            /\ error' = error
    /\ DropEvalLocals
    /\ UNCHANGED <<Inputs, files, stats, stats_file, net, optimizer, lr_adjust, Best,
                   epoch, loader, mask3d, loss2d, loss3d, TrainTotals,
                   EpochLosses, counts, rmse1, rmse2>>

\* line 282: F1 > best2dmetric
Improves2d(f1, best) == RLt(best, f1)

\* mutant of Improves3d: the comparison of the 2D tracker, copied
Improves3dGreater(rmse, best) == RealLt(best, rmse)

\* line 287: RMSE2 < best3dmetric
Improves3d(rmse, best) == RealLt(rmse, best)

Saved(n) == [exists |-> TRUE, params |-> n.params]

\* mutant of CheckpointDecision: the second check is an elif of the first
CheckpointDecisionElif ==
    /\ pc = "checkpoint"
    /\ best2dmetric' = IF Improves2d(F1, best2dmetric) THEN F1 ELSE best2dmetric
    /\ best3dmetric' = IF ~Improves2d(F1, best2dmetric) /\ Improves3d(RMSE2, best3dmetric)
                       THEN RMSE2 ELSE best3dmetric
    /\ files' = [t \in {"2d", "3d"} |->
                   IF t = "2d" /\ Improves2d(F1, best2dmetric) THEN Saved(net)
                   ELSE IF t = "3d" /\ ~Improves2d(F1, best2dmetric)
                                   /\ Improves3d(RMSE2, best3dmetric) THEN Saved(net)
                   ELSE files[t]]
    /\ pc' = "stats"
    /\ UNCHANGED <<Inputs, stats, stats_file, error, net, optimizer, lr_adjust, epoch,
                   loader, TrainLocals, TrainTotals, EpochLosses, EvalTotals,
                   EvalLocals, EvalMetrics>>

(***************************************************************************)
(* Lines 282-290: the two checkpoint decisions.                            *)
(***************************************************************************)
CheckpointDecision ==
    /\ pc = "checkpoint"
    /\ best2dmetric' = IF Improves2d(F1, best2dmetric) THEN F1 ELSE best2dmetric
    /\ best3dmetric' = IF Improves3d(RMSE2, best3dmetric) THEN RMSE2 ELSE best3dmetric
    /\ files' = [t \in {"2d", "3d"} |->
                   IF t = "2d" /\ Improves2d(F1, best2dmetric) THEN Saved(net)
                   ELSE IF t = "3d" /\ Improves3d(RMSE2, best3dmetric) THEN Saved(net)
                   ELSE files[t]]
    /\ pc' = "stats"
    /\ UNCHANGED <<Inputs, stats, stats_file, error, net, optimizer, lr_adjust, epoch,
                   loader, TrainLocals, TrainTotals, EpochLosses, EvalTotals,
                   EvalLocals, EvalMetrics>>

\* line 292
EpochRecord ==
    [epoch |-> EpochKey(epoch), Loss2D |-> epoch_2d_loss, Loss3D |-> epoch_3d_loss,
     Loss |-> epoch_loss, RMSE |-> RMSE1, cRMSE |-> RMSE2,
     F1Score |-> RMul(F1, R(Percent)), IoU |-> RMul(IoU, R(Percent))]

(***************************************************************************)
(* Lines 292-293: the epoch's record, then back to the loop head.          *)
(***************************************************************************)
AppendStats ==
    /\ pc = "stats"
    /\ stats' = EpochRecord
    /\ stats_file' = Append(stats_file, EpochRecord.epoch)
    /\ pc' = "epoch_head"
    /\ DropEpochValues
    /\ UNCHANGED <<Inputs, files, error, net, optimizer, lr_adjust, Best, epoch,
                   loader, TrainLocals, EvalLocals>>

(***************************************************************************)
(* Lines 295-313: the loop is exhausted; reload the tagged checkpoint if   *)
(* it exists, net.eval(), and the accumulators of the test phase.          *)
(***************************************************************************)
TestBegin ==
    /\ pc = "epoch_head"
    /\ epoch + 1 \notin EpochRange
    /\ net' = [LoadIfExists(net) EXCEPT !.training = FALSE]
    /\ counts' = ZeroCounts
    /\ mean_mae' = R(0)
    /\ rmse1' = R(0)
    /\ rmse2' = R(0)
    /\ loader' = Indices(test_dataset)
    /\ stats' = NoStats
    /\ pc' = "test"
    /\ UNCHANGED <<Inputs, files, stats_file, error, optimizer, lr_adjust, Best,
                   epoch, TrainLocals, TrainTotals, EpochLosses, EvalLocals,
                   EvalMetrics>>

(***************************************************************************)
(* Lines 315-349: one test sample.  The verbose branch (lines 338-341)     *)
(* reads the name s_rmse, which nothing binds: NameError.                  *)
(***************************************************************************)
TestBatch ==
    /\ pc = "test"
    /\ loader # {}
    /\ batch' = <<Min(loader)>>
    /\ loader' = loader \ {Min(loader)}
    /\ IF args.verbose
       THEN /\ Raise("NameError")
            /\ UNCHANGED <<EvalLocals, EvalTotals>>
       ELSE /\ \E o \in NetOutputs :
                  EvalBatch(test_dataset[Min(loader)], o[1], Raw(o[2]),
                            [i \in 1..Len(o[2]) |-> DenormalizeTest(Raw(o[2])[i])])
            /\ UNCHANGED <<pc, error>>
    /\ UNCHANGED <<Inputs, files, stats, stats_file, net, optimizer, lr_adjust, Best,
                   epoch, mask3d, loss2d, loss3d, TrainTotals, EpochLosses,
                   EvalMetrics>>

\* line 360
TestRecord(f1, iou, mae, r1, r2) ==
    [epoch |-> TestKey, MeanAbsoluteError |-> mae, RMSE |-> r1, cRMSE |-> r2,
     F1Score |-> RMul(f1, R(Percent)), IoU |-> RMul(iou, R(Percent))]

(***************************************************************************)
(* Lines 351-361: the metrics of the test phase and the Test record.       *)
(***************************************************************************)
TestEnd ==
    /\ pc = "test"
    /\ loader = {}
    /\ IF DivisionFaults(counts)
       THEN /\ Raise("ZeroDivisionError")
            /\ UNCHANGED <<EvalMetrics, mean_mae, stats, stats_file>>
       ELSE /\ F1' = F1Score(counts)
            /\ IoU' = IoUScore(counts)
            /\ mean_mae' = RDiv(mean_mae, R(Len(test_dataset)))
            /\ RMSE1' = RootMean(rmse1, Len(test_dataset))
            /\ RMSE2' = RootMean(rmse2, Len(test_dataset))
            /\ stats' = TestRecord(F1Score(counts), IoUScore(counts),
                                   RDiv(mean_mae, R(Len(test_dataset))),
                                   RootMean(rmse1, Len(test_dataset)),
                                   RootMean(rmse2, Len(test_dataset)))
            /\ stats_file' = Append(stats_file, TestKey)
            /\ pc' = "done"
            /\ error' = error
    /\ DropEvalLocals
    /\ UNCHANGED <<Inputs, files, net, optimizer, lr_adjust, Best, epoch, loader,
                   mask3d, loss2d, loss3d, TrainTotals, EpochLosses, counts,
                   rmse1, rmse2>>

Next ==
    \/ ModelDispatch
    \/ SetOptimizer
    \/ RestoreAndStart
    \/ EpochBegin
    \/ TrainBatch
    \/ TrainEnd
    \/ ValBegin
    \/ ValBatch
    \/ ValEnd
    \/ CheckpointDecision
    \/ AppendStats
    \/ TestBegin
    \/ TestBatch
    \/ TestEnd

Spec == Init /\ [][Next]_vars

(***************************************************************************)
(* Properties.                                                             *)
(***************************************************************************)
IsEpochKey(k) == k.tag = "epoch"

EpochLines == SelectSeq(stats_file, IsEpochKey)

\* C1: for a configured epoch count N >= 1 the loop has run exactly the
\* epochs 1, 2, ..., N, each to its record, when the test phase starts.
C1_RunsConfiguredEpochs ==
    pc \in {"test", "done"} =>
        EpochLines = [i \in 1..nepochs |-> EpochKey(i)]

\* what the loop does run: the epochs 1 .. N-1
C1_RunsOneEpochLess ==
    pc \in {"test", "done"} =>
        EpochLines = [i \in 1..(nepochs - 1) |-> EpochKey(i)]

\* C3: every training batch adds its loss times its actual size n_b to the
\* epoch totals, and the epoch losses are the totals divided by the dataset
\* size D: the epoch loss is (sum of l_b * n_b) / D, partial last batch
\* included.
C3_LossWeightedByActualBatchSize ==
    [][/\ (pc = "train" /\ pc' = "train") =>
            /\ tot_2d_loss' = tot_2d_loss + loss2d' * Len(batch')
            /\ tot_3d_loss' = tot_3d_loss + loss3d' * Len(batch')
       /\ (pc = "train" /\ pc' = "val_head") =>
            /\ epoch_2d_loss' = RDiv(R(tot_2d_loss), R(Len(train_dataset)))
            /\ epoch_3d_loss' = RDiv(R(tot_3d_loss), R(Len(train_dataset)))
      ]_vars

EvalSample ==
    IF pc = "val" THEN valid_dataset[batch[1]] ELSE test_dataset[batch[1]]

InEvalBatch == pc \in {"val", "test"} /\ batch # <<>>

\* the squared error summed over the elements with a non-zero target only,
\* divided by the number of those elements
NonzeroTargetMse(inputs, targets) ==
    RDiv(RSum([i \in 1..Len(targets) |->
                  IF targets[i] # R(0)
                  THEN RMul(RSub(inputs[i], targets[i]), RSub(inputs[i], targets[i]))
                  ELSE R(0)]),
         R(Cardinality({i \in 1..Len(targets) : targets[i] # R(0)})))

\* C4: for a batch with at least one non-zero ground-truth element, the
\* excluded-zero mean squared error is the squared error summed over the
\* non-zero ground-truth elements only, divided by their count.
C4_ExcludedZeroMseIgnoresZeroTargets ==
    (InEvalBatch /\ \E i \in 1..Len(EvalSample.mask3d) : EvalSample.mask3d[i] # 0)
        => s_rmse2 = NonzeroTargetMse(out3d, Rs(EvalSample.mask3d))

OneClass(y_true, y_pred) ==
    \E c \in {0, 1} : \A i \in 1..Len(y_true) : y_true[i] = c /\ y_pred[i] = c

\* C5: in validation and test a batch whose ground truth and prediction are
\* entirely one class contributes the counts (0,0,0,0), and no fault ends
\* the phase, also when every batch of the phase is such a batch.
C5_DegenerateBatchesRaiseNothing ==
    /\ (InEvalBatch /\ OneClass(EvalSample.mask2d, out2d)) =>
            (cm.tn = 0 /\ cm.fp = 0 /\ cm.fn = 0 /\ cm.tp = 0)
    /\ error # "ZeroDivisionError"

\* C10: the model is in training mode during the training batches of every
\* epoch and in evaluation mode during the validation batches.
C10_TrainingModeInEveryEpoch ==
    /\ pc = "train" => net.training
    /\ pc = "val" => ~net.training

\* C2: in every epoch the 2D-best artifact is written exactly when the
\* epoch's F1 is strictly greater than best2dmetric, and the 3D-best
\* artifact exactly when its cRMSE is strictly less than best3dmetric; each
\* decision depends on its own comparison only, and nothing else writes
\* an artifact.
C2_CheckpointsDecidedIndependently ==
    [][IF pc = "checkpoint"
       THEN /\ (files'["2d"] # files["2d"]) <=> RLt(best2dmetric, F1)
            /\ (files'["3d"] # files["3d"]) <=> RealLt(RMSE2, best3dmetric)
            /\ files'["2d"] # files["2d"] => files'["2d"] = Saved(net)
            /\ files'["3d"] # files["3d"] => files'["3d"] = Saved(net)
       ELSE files' = files
      ]_vars

WrittenThisEpoch(t) == files[t].exists /\ files[t].params = net.params

\* the four outcomes of an epoch's two decisions
C2_Only2dSaved == pc = "stats" /\ WrittenThisEpoch("2d") /\ ~WrittenThisEpoch("3d")

C2_Only3dSaved == pc = "stats" /\ ~WrittenThisEpoch("2d") /\ WrittenThisEpoch("3d")

C2_BothSaved == pc = "stats" /\ WrittenThisEpoch("2d") /\ WrittenThisEpoch("3d")

C2_NeitherSaved == pc = "stats" /\ ~WrittenThisEpoch("2d") /\ ~WrittenThisEpoch("3d")

\* C6: with a model name outside the enumeration the run never gets past
\* the optimizer set-up: no training step, no validation, no checkpoint, no
\* record, and the only way on is the NameError raised on the unbound net.
C6_UnknownModelNeverTrains ==
    model \notin ModelNames =>
        /\ pc \in {"dispatch", "optim", "error"}
        /\ pc = "error" => error = "NameError"
        /\ ~net.bound
        /\ optimizer = 0
        /\ lr_adjust = 0
        /\ epoch = 0
        /\ stats_file = <<>>
        /\ \A t \in DOMAIN files : ~files[t].exists

C6_UnknownModelStopped ==
    model \notin ModelNames /\ pc = "error" /\ error = "NameError"

RLe(a, b) == ~IsNaN(a) /\ ~IsNaN(b) /\ ~RLt(b, a)

RealLe(a, b) == ~IsNaN(a.q) /\ ~IsNaN(b.q) /\ ~RealLt(b, a)

\* C7: best2dmetric starts at 0 and each epoch's decision makes it the
\* larger of itself and the epoch's F1; best3dmetric starts at the sentinel
\* and each decision makes it the smaller of itself and the epoch's cRMSE;
\* so they are the running maximum and minimum, never decrease (increase),
\* and no other step, the test phase included, changes them.
C7_BestTrackersAreRunningExtremes ==
    /\ best2dmetric = R(0)
    /\ best3dmetric = Num(R(Sentinel3d))
    /\ [][IF pc = "checkpoint"
          THEN /\ best2dmetric' \in {best2dmetric, F1}
               /\ RLe(best2dmetric, best2dmetric')
               /\ ~IsNaN(F1) => RLe(F1, best2dmetric')
               /\ best3dmetric' \in {best3dmetric, RMSE2}
               /\ RealLe(best3dmetric', best3dmetric)
               /\ ~IsNaN(RMSE2.q) => RealLe(best3dmetric', RMSE2)
          ELSE /\ best2dmetric' = best2dmetric
               /\ best3dmetric' = best3dmetric
         ]_vars

\* a second epoch that is worse than the first on both metrics
C7_LaterEpochWorse ==
    /\ pc = "stats"
    /\ epoch = 2
    /\ RLt(R(0), F1)
    /\ RLt(F1, best2dmetric)
    /\ RealLt(best3dmetric, RMSE2)
    /\ IsFinite(RMSE2.q)

\* C8: within an epoch: the training batches, then one scheduler step, then
\* validation, then the checkpoint decisions, then the append of the
\* epoch's record as its last action; the scheduler steps once per epoch,
\* and never in validation or in the test phase.
C8_EpochOrder ==
    /\ [](pc = "train" => lr_adjust = epoch - 1 /\ Len(stats_file) = epoch - 1)
    /\ [](pc \in {"val_head", "val", "checkpoint", "stats"} =>
              lr_adjust = epoch /\ Len(stats_file) = epoch - 1)
    /\ [](pc = "epoch_head" => lr_adjust = epoch /\ Len(stats_file) = epoch)
    /\ [](pc \in {"test", "done"} => lr_adjust = epoch)
    /\ [][/\ optimizer' # optimizer => pc = "train" /\ pc' = "train"
          /\ lr_adjust' # lr_adjust =>
                /\ pc = "train" /\ loader = {} /\ pc' = "val_head"
                /\ lr_adjust' = lr_adjust + 1
          /\ pc' = "val_head" => pc = "train" /\ loader = {}
          /\ pc' = "val" => pc \in {"val_head", "val"}
          /\ pc' = "checkpoint" => pc = "val" /\ loader = {}
          /\ files' # files => pc = "checkpoint" /\ pc' = "stats"
          /\ pc' = "stats" => pc = "checkpoint"
          /\ (stats_file' # stats_file /\ pc' # "done") =>
                /\ pc = "stats" /\ pc' = "epoch_head"
                /\ stats_file' = Append(stats_file, EpochKey(epoch))
          /\ pc = "stats" => stats_file' # stats_file
         ]_vars

C8_SecondEpochComplete ==
    pc = "epoch_head" /\ epoch = 2 /\ lr_adjust = 2 /\ Len(stats_file) = 2

\* C9: normalising a value of [min_scale, max_scale] as the training step
\* does and denormalising it as validation does, or as the test phase does,
\* gives the value back; the two denormalisations agree.
C9_NormalizationRoundTrip ==
    /\ (pc = "train" /\ batch # <<>>) =>
          \A i \in 1..Len(batch) : \A j \in 1..Len(mask3d[i]) :
              /\ DenormalizeVal(mask3d[i][j]) = R(train_dataset[batch[i]].mask3d[j])
              /\ DenormalizeTest(mask3d[i][j]) = R(train_dataset[batch[i]].mask3d[j])
              /\ DenormalizeVal(mask3d[i][j]) = DenormalizeTest(mask3d[i][j])
    /\ InEvalBatch =>
          \A o \in NetOutputs : net_out3d = Raw(o[2]) => out3d = Rs(o[2])

C9_DenormalizedPrediction ==
    /\ pc = "val"
    /\ min_scale # 0
    /\ out3d = Rs(<<1, 2>>)
    /\ net_out3d # out3d

=============================================================================
